---- MODULE Spec2Model ----
(***************************************************************************)
(* Model of app/core/limiter.py: the tier-aware, cost-based rate limiter   *)
(* (get_rate_limit_key, AdvancedRateLimiter.check_rate_limit with its Lua  *)
(* script run by the Redis store, get_user_tier, and the rate_limit        *)
(* decorator's wrapper).                                                   *)
(*                                                                         *)
(* Seven specifications share the operators that model the code:           *)
(*   SpecSeq    one caller invoking check_rate_limit on one bucket, one    *)
(*              call after the other, with any cost and a clock that only  *)
(*              moves forward;                                             *)
(*   SpecBurst  the same caller repeating one cost many times on a fresh   *)
(*              key (the "60 requests arrive at once" scenarios);          *)
(*   Spec       several request handlers running the decorator's wrapper   *)
(*              concurrently against the shared store, which may fail.     *)
(*   SpecCost   the caller of SpecSeq passing any int as cost, zero and     *)
(*              negative ones included;                                    *)
(*   SpecKey    get_rate_limit_key applied to two requests;                *)
(*   SpecFrame  one caller whose calls go to several keys and windows;     *)
(*   SpecFill   a steady caller of cost 1 that fills a default window.     *)
(***************************************************************************)
EXTENDS Integers, Sequences, FiniteSets, TLC

VARIABLES
    clock,      \* the wall clock, int(time.time()), in seconds
    zsets,      \* the store: bucket_key -> sorted set (a set of entries)
    ttl,        \* the store: bucket_key -> Some(time at which the key expires), or None
    tierStore,  \* the store: user id -> Some(tier label stored under user:tier:{id}), or None
    bucket,     \* the one-caller specifications: the (key, window, tier, max_requests) the caller uses
    last,       \* the one-caller specifications: what the last check_rate_limit call saw and returned
    log,        \* SpecSeq/SpecFrame: the admitted calls so far, in order
    nCalls,     \* the one-caller specifications: number of calls made
    nAdmitted,  \* the one-caller specifications: number of calls admitted
    pc,         \* Spec/SpecKey: where each request handler is in the wrapper
    req,        \* Spec/SpecKey: the request each handler serves and what it has computed
    nReqs,      \* Spec: number of requests received
    done,       \* Spec: the request that ended last, as it ended
    client      \* Spec: the client whose requests arrive: its user, if any, and address

storeVars == <<zsets, ttl, tierStore>>
seqVars == <<bucket, last, log, nCalls, nAdmitted>>
procVars == <<pc, req, nReqs, done, client>>
vars == <<clock, zsets, ttl, tierStore, bucket, last, log, nCalls, nAdmitted,
          pc, req, nReqs, done, client>>

----------------------------------------------------------------------------
(* Bounds of the model *)

MaxTime == 4        \* the clock runs over 0..MaxTime
MaxCalls == 4       \* SpecSeq: calls per behaviour
MaxBurst == 62      \* SpecBurst: calls per behaviour (more than the free limit)
MaxReqs == 2        \* Spec: requests per behaviour
MaxClock == 3       \* Spec: the clock runs over 0..MaxClock
FrameCalls == 3     \* SpecFrame: calls per behaviour
FillTime == 61      \* SpecFill: the clock runs over 0..FillTime (more than a default window)
FillPerSecond == 2  \* SpecFill: calls per second, at most

\* Python's None, a missing store key, a key with no TTL: the empty sequence;
\* a present value v is <<v>>.
None == << >>
Some(v) == <<v>>

Max(a, b) == IF a >= b THEN a ELSE b

----------------------------------------------------------------------------
(* The quota table and the keys *)

\* tier_limits of check_rate_limit
tier_limits ==
    [free       |-> [requests |-> 60,   burst |-> 10],
     pro        |-> [requests |-> 600,  burst |-> 100],
     enterprise |-> [requests |-> 6000, burst |-> 1000]]

\* A variant that gives an unknown label the limit of the "pro" tier:
max_requests_of_unknown_as_pro(tier) ==
    IF tier \in DOMAIN tier_limits THEN tier_limits[tier].requests
    ELSE tier_limits["pro"].requests

\* limits = tier_limits.get(tier, tier_limits["free"]); max_requests = limits["requests"]
max_requests_of(tier) ==
    IF tier \in DOMAIN tier_limits THEN tier_limits[tier].requests
    ELSE tier_limits["free"].requests

\* A variant that keeps the caller's max_requests argument:
max_requests_from_argument(max_requests, tier) == max_requests

\* check_rate_limit takes max_requests as an argument and overwrites it with
\* the tier's limit (max_requests = limits["requests"]) before any use
max_requests_used(max_requests, tier) == max_requests_of(tier)

\* A variant that leaves the window out of the bucket key:
bucket_key_without_window(key, window_seconds) == <<"rl", key, 60>>

\* bucket_key = f"rl:{key}:{window_seconds}"
bucket_key(key, window_seconds) == <<"rl", key, window_seconds>>

----------------------------------------------------------------------------
(* The Redis sorted-set commands the script uses.  A sorted set is a set   *)
(* of entries [score, member] with at most one entry per member.           *)

\* ZREMRANGEBYSCORE key min max: drops the entries with min <= score <= max
ZREMRANGEBYSCORE(z, min, max) == {e \in z : ~(min <= e.score /\ e.score <= max)}

\* ZCARD key: the number of entries
ZCARD(z) == Cardinality(z)

\* ZADD key score member: adds the member, or moves it when it is already there
ZADD(z, score, member) ==
    {e \in z : e.member # member} \cup {[score |-> score, member |-> member]}

\* now .. ':' .. cost, the member the script stores
Member(now, cost) == <<now, ":", cost>>

\* Variants of the script, each with one plausible slip.
\* A rejection that records its event all the same:
lua_script_records_rejected(z, window, max_requests, cost, now) ==
    LET pruned == ZREMRANGEBYSCORE(z, 0, now - window)
        current == ZCARD(pruned)
    IN  IF current + cost > max_requests
        THEN [reply |-> <<0, current, max_requests>>,
              zset |-> ZADD(pruned, now, Member(now, cost)), expire |-> FALSE]
        ELSE [reply |-> <<1, current + cost, max_requests>>,
              zset |-> ZADD(pruned, now, Member(now, cost)), expire |-> TRUE]

\* A comparison that forgets the cost of the request at hand:
lua_script_ignores_cost(z, window, max_requests, cost, now) ==
    LET pruned == ZREMRANGEBYSCORE(z, 0, now - window)
        current == ZCARD(pruned)
    IN  IF current >= max_requests
        THEN [reply |-> <<0, current, max_requests>>,
              zset |-> pruned, expire |-> FALSE]
        ELSE [reply |-> <<1, current + cost, max_requests>>,
              zset |-> ZADD(pruned, now, Member(now, cost)), expire |-> TRUE]

\* A pruning that already drops the events one second short of a window:
lua_script_prunes_early(z, window, max_requests, cost, now) ==
    LET pruned == ZREMRANGEBYSCORE(z, 0, now - window + 1)
        current == ZCARD(pruned)
    IN  IF current + cost > max_requests
        THEN [reply |-> <<0, current, max_requests>>,
              zset |-> pruned, expire |-> FALSE]
        ELSE [reply |-> <<1, current + cost, max_requests>>,
              zset |-> ZADD(pruned, now, Member(now, cost)), expire |-> TRUE]

\* A pruning that keeps the events exactly one window old:
lua_script_prunes_strictly(z, window, max_requests, cost, now) ==
    LET pruned == ZREMRANGEBYSCORE(z, 0, now - window - 1)
        current == ZCARD(pruned)
    IN  IF current + cost > max_requests
        THEN [reply |-> <<0, current, max_requests>>,
              zset |-> pruned, expire |-> FALSE]
        ELSE [reply |-> <<1, current + cost, max_requests>>,
              zset |-> ZADD(pruned, now, Member(now, cost)), expire |-> TRUE]

\* A rejection that refreshes the TTL all the same:
lua_script_rejection_expires(z, window, max_requests, cost, now) ==
    LET pruned == ZREMRANGEBYSCORE(z, 0, now - window)
        current == ZCARD(pruned)
    IN  IF current + cost > max_requests
        THEN [reply |-> <<0, current, max_requests>>,
              zset |-> pruned, expire |-> TRUE]
        ELSE [reply |-> <<1, current + cost, max_requests>>,
              zset |-> ZADD(pruned, now, Member(now, cost)), expire |-> TRUE]

\* A script that counts without pruning first:
lua_script_without_prune(z, window, max_requests, cost, now) ==
    LET current == ZCARD(z)
    IN  IF current + cost > max_requests
        THEN [reply |-> <<0, current, max_requests>>,
              zset |-> z, expire |-> FALSE]
        ELSE [reply |-> <<1, current + cost, max_requests>>,
              zset |-> ZADD(z, now, Member(now, cost)), expire |-> TRUE]

\* A comparison that lets one unit too many through:
lua_script_admits_at_limit(z, window, max_requests, cost, now) ==
    LET pruned == ZREMRANGEBYSCORE(z, 0, now - window)
        current == ZCARD(pruned)
    IN  IF current + cost > max_requests + 1
        THEN [reply |-> <<0, current, max_requests>>,
              zset |-> pruned, expire |-> FALSE]
        ELSE [reply |-> <<1, current + cost, max_requests>>,
              zset |-> ZADD(pruned, now, Member(now, cost)), expire |-> TRUE]

\* An admission that reports the usage before it rather than after it:
lua_script_reports_before(z, window, max_requests, cost, now) ==
    LET pruned == ZREMRANGEBYSCORE(z, 0, now - window)
        current == ZCARD(pruned)
    IN  IF current + cost > max_requests
        THEN [reply |-> <<0, current, max_requests>>,
              zset |-> pruned, expire |-> FALSE]
        ELSE [reply |-> <<1, current, max_requests>>,
              zset |-> ZADD(pruned, now, Member(now, cost)), expire |-> TRUE]

\* The Lua script of check_rate_limit, run atomically by the store on the
\* sorted set z of KEYS[1]; ARGV = window, max_requests, cost, now.
\* reply is the table the script returns; expire says whether EXPIRE ran.
lua_script(z, window, max_requests, cost, now) ==
    LET pruned == ZREMRANGEBYSCORE(z, 0, now - window)
        current == ZCARD(pruned)
    IN  IF current + cost > max_requests
        THEN [reply |-> <<0, current, max_requests>>,
              zset |-> pruned, expire |-> FALSE]
        ELSE [reply |-> <<1, current + cost, max_requests>>,
              zset |-> ZADD(pruned, now, Member(now, cost)), expire |-> TRUE]

\* The metadata check_rate_limit builds from the script's reply; now2 is
\* the second int(time.time()) read.
metadata(reply, window_seconds, tier, cost, now2) ==
    LET allowed == reply[1] # 0
        current_requests == reply[2]
        limit == reply[3]
    IN  [limit |-> limit,
         remaining |-> Max(0, limit - current_requests),
         reset |-> now2 + window_seconds,
         retry_after |-> IF ~allowed THEN Some(window_seconds) ELSE None,
         tier |-> tier,
         cost |-> cost]

----------------------------------------------------------------------------
(* The store: Redis runs one command or script at a time.  EXPIRE key w    *)
(* run during second t makes the key vanish w seconds later, at some       *)
(* instant of second t + w: during that second the key may or may not be   *)
(* there still (StoreExpire), from second t + w + 1 on it is gone for      *)
(* every command (Expired).                                                *)

ExpiryDue(b) == ttl[b] # None /\ clock >= ttl[b][1]
Expired(b) == ttl[b] # None /\ clock > ttl[b][1]

\* The sorted set a command finds under key b
Stored(b) == IF Expired(b) THEN {} ELSE zsets[b]

\* EVAL of the script on key b at store time clock: the new sorted set and
\* TTL of b.  An empty sorted set is no key at all, so it has no TTL.
StoreAfterEval(b, out, window) ==
    /\ zsets' = [zsets EXCEPT ![b] = out.zset]
    /\ ttl' = [ttl EXCEPT ![b] =
                 IF out.zset = {} THEN None
                 ELSE IF out.expire THEN Some(clock + window)
                 ELSE IF Expired(b) THEN None ELSE @]

----------------------------------------------------------------------------
(* Inputs *)

Users == {42}
Addresses == {"10.0.0.1"}

\* A variant that gives every authenticated request one key:
get_rate_limit_key_one_user(user, addr) ==
    IF user # None THEN <<"user", ":", 0>> ELSE <<addr>>

\* A variant that keys every request by its address:
get_rate_limit_key_by_address(user, addr) == <<addr>>

\* get_rate_limit_key: f"user:{id}" for an authenticated request,
\* get_remote_address(request) otherwise
get_rate_limit_key(user, addr) ==
    IF user # None THEN <<"user", ":", user[1]>> ELSE <<addr>>

Keys == {get_rate_limit_key(Some(u), a) : u \in Users, a \in Addresses}
          \cup {get_rate_limit_key(None, a) : a \in Addresses}
\* window_seconds: int = 60, the default window
default_window == 60

\* max_requests: int = 60, the default of the argument
default_max_requests == 60

\* requests=10, the decorator's argument in its documented usage
documented_requests == 10

\* Short windows, so that events expire within the seconds modelled
Windows == {2, 3}
TierLabels == {"free", "pro", "default"}
Buckets == {bucket_key(k, w) : k \in Keys, w \in Windows \cup {default_window}}

\* The costs tried against a limit: the default cost, a cost just under the
\* limit, and a cost above it.
Costs(limit) == {1, limit - 1, limit + 1}

----------------------------------------------------------------------------
(* The request handlers: each runs the wrapper of @rate_limit for one      *)
(* request at a time.                                                      *)

Procs == {"h1", "h2"}

NoReq ==
    [user |-> None, addr |-> "", max_requests |-> 0, cost |-> 0,
     window |-> 0, key |-> << >>,
     tier |-> "", now |-> 0, reply |-> <<0, 0, 0>>, allowed |-> FALSE,
     meta |-> metadata(<<0, 0, 0>>, 0, "", 0, 0),
     failed |-> "", evals |-> 0, executed |-> FALSE,
     handler_called |-> FALSE,
     handler_args |-> None, status |-> "", headers |-> {}]

Clients == [user : {None} \cup {Some(u) : u \in Users}, addr : Addresses]

InitProcs ==
    /\ pc = [p \in Procs |-> "idle"]
    /\ req = [p \in Procs |-> NoReq]
    /\ nReqs = 0
    /\ done = NoReq

----------------------------------------------------------------------------
(* SpecSeq: one caller, one bucket, one call after the other *)

NoCall ==
    [called |-> FALSE, cost |-> 0, now |-> 0, prev_now |-> None,
     before |-> {}, after |-> {}, reply |-> <<0, 0, 0>>,
     allowed |-> FALSE,
     meta |-> metadata(<<0, 0, 0>>, 0, "free", 0, 0)]

InitStore ==
    /\ clock = 0
    /\ zsets = [b \in Buckets |-> {}]
    /\ ttl = [b \in Buckets |-> None]

InitSeq ==
    /\ InitStore
    /\ tierStore = [u \in Users |-> None]
    /\ client = [user |-> None, addr |-> "10.0.0.1"]
    /\ bucket \in [key : Keys, window : Windows, tier : TierLabels,
                   requests : {default_max_requests}]
    /\ last = NoCall
    /\ log = << >>
    /\ nCalls = 0
    /\ nAdmitted = 0
    /\ InitProcs

\* One whole call check_rate_limit(key, cost, window_seconds,
\* max_requests=requests, tier=tier):
\* now = int(time.time()), EVAL, then the second clock read now2 for the
\* reset time (the clock may have moved on in between).
check_rate_limit_on(bk, cost, now2) ==
    LET b == bucket_key(bk.key, bk.window)
        now == clock
        out == lua_script(Stored(b), bk.window,
                          max_requests_used(bk.requests, bk.tier),
                          cost, now)
        allowed == out.reply[1] # 0
    IN  /\ StoreAfterEval(b, out, bk.window)
        /\ clock' = now2
        /\ last' = [called |-> TRUE, cost |-> cost, now |-> now,
                    prev_now |-> IF last.called THEN Some(last.now) ELSE None,
                    before |-> Stored(b), after |-> out.zset,
                    reply |-> out.reply, allowed |-> allowed,
                    meta |-> metadata(out.reply, bk.window, bk.tier,
                                      cost, now2)]
        /\ nCalls' = nCalls + 1
        /\ nAdmitted' = IF allowed THEN nAdmitted + 1 ELSE nAdmitted
        /\ UNCHANGED <<tierStore, procVars>>

\* The call of a caller that stays with its bucket
check_rate_limit(cost, now2) ==
    check_rate_limit_on(bucket, cost, now2) /\ UNCHANGED bucket

Later == {t \in clock..(clock + 1) : t <= MaxTime}

SeqCall ==
    /\ nCalls < MaxCalls
    /\ \E cost \in Costs(max_requests_of(bucket.tier)), now2 \in Later :
          /\ check_rate_limit(cost, now2)
          /\ log' = IF last'.allowed
                    THEN Append(log, [now |-> last'.now, cost |-> last'.cost])
                    ELSE log

\* A second passes
TickTo(bound) ==
    /\ clock < bound
    /\ clock' = clock + 1
    /\ UNCHANGED <<storeVars, seqVars, procVars>>

Tick == TickTo(MaxTime)

\* The store drops a key whose TTL has elapsed
StoreExpire ==
    \E b \in Buckets :
        /\ ExpiryDue(b)
        /\ zsets' = [zsets EXCEPT ![b] = {}]
        /\ ttl' = [ttl EXCEPT ![b] = None]
        /\ UNCHANGED <<clock, tierStore, seqVars, procVars>>

NextSeq == SeqCall \/ Tick \/ StoreExpire

SpecSeq == InitSeq /\ [][NextSeq]_vars

----------------------------------------------------------------------------
(* SpecBurst: one caller repeating one cost on a fresh key, with the       *)
(* default window                                                          *)

BurstCosts == {1, 10}

InitBurst ==
    /\ InitStore
    /\ tierStore = [u \in Users |-> None]
    /\ client = [user |-> None, addr |-> "10.0.0.1"]
    /\ bucket \in [key : {get_rate_limit_key(Some(42), "10.0.0.1")},
                   window : {default_window}, tier : {"free"},
                   requests : {documented_requests, default_max_requests}]
    /\ last = NoCall
    /\ log = << >>
    /\ nCalls = 0
    /\ nAdmitted = 0
    /\ InitProcs

BurstCall ==
    /\ nCalls < MaxBurst
    /\ \E cost \in BurstCosts, now2 \in Later :
          /\ last.called => cost = last.cost
          /\ check_rate_limit(cost, now2)
          /\ UNCHANGED log

\* The 60-second TTL cannot elapse within the seconds modelled, so the
\* store's expiry is no step here.
NextBurst == BurstCall \/ Tick

SpecBurst == InitBurst /\ [][NextBurst]_vars

----------------------------------------------------------------------------
(* Spec: request handlers running the wrapper concurrently                 *)

\* What the tier store may hold for a user: nothing, a tier of the table,
\* a label the table does not know
StoredTiers == {None, Some("pro"), Some("enterprise"), Some("gold")}

\* The decorated endpoints, @rate_limit(requests=..., window=..., cost=...):
\* a cost that fits the free limit and one above it
Endpoints == [requests : {documented_requests}, cost : {59, 61}, window : {2}]

Init ==
    /\ InitStore
    /\ tierStore \in [Users -> StoredTiers]
    /\ client \in Clients
    /\ bucket = [key |-> get_rate_limit_key(None, "10.0.0.1"),
                 window |-> default_window, tier |-> "free",
                 requests |-> default_max_requests]
    /\ last = NoCall
    /\ log = << >>
    /\ nCalls = 0
    /\ nAdmitted = 0
    /\ InitProcs

\* get_user_tier: tier = GET user:tier:{user_id}; return tier or "free"
get_user_tier(user_id) ==
    IF tierStore[user_id] = None THEN "free" ELSE tierStore[user_id][1]

\* A variant that swallows the exception and lets the request through
\* (fails open):
Raise_fail_open(r, where) ==
    [pc |-> "meta",
     req |-> [r EXCEPT !.failed = where, !.allowed = TRUE,
                       !.reply = <<1, r.cost, max_requests_of(r.tier)>>]]

\* A store call raises (connection error, timeout).  Neither get_user_tier,
\* check_rate_limit nor the wrapper catches anything: the exception leaves
\* the wrapper and the request ends as an unhandled error.
Raise(r, where) ==
    [pc |-> "raised",
     req |-> [r EXCEPT !.failed = where, !.status = "unhandled_error"]]

\* Handler p goes on with request x.req at x.pc; a request that is over
\* ("raised", "done") is kept in done and the handler is free again.
Continue(p, x) ==
    IF x.pc \in {"raised", "done"}
    THEN /\ done' = x.req
         /\ req' = [req EXCEPT ![p] = NoReq]
         /\ pc' = [pc EXCEPT ![p] = "idle"]
    ELSE /\ req' = [req EXCEPT ![p] = x.req]
         /\ pc' = [pc EXCEPT ![p] = x.pc]
         /\ UNCHANGED done

\* wrapper, lines 147-152: a request arrives at a free handler; key, and
\* the tier "free" unless the request is authenticated.  check_rate_limit,
\* line 100: its int(time.time()), read before EVAL is sent, for a request
\* that needs no tier lookup.
Receive(p) ==
    /\ pc[p] = "idle"
    /\ nReqs < MaxReqs
    /\ \E ep \in Endpoints :
          Continue(p, [pc |-> IF client.user # None THEN "tier" ELSE "eval",
                       req |-> [NoReq EXCEPT
                                  !.user = client.user, !.addr = client.addr,
                                  !.max_requests = ep.requests,
                                  !.cost = ep.cost, !.window = ep.window,
                                  !.key = get_rate_limit_key(client.user,
                                                             client.addr),
                                  !.tier = "free", !.now = clock]])
    /\ nReqs' = nReqs + 1
    /\ UNCHANGED <<clock, storeVars, seqVars, client>>

\* wrapper, lines 151-152: the tier of an authenticated user, and then
\* check_rate_limit, line 100: int(time.time()), read before EVAL is sent
GetUserTier(p) ==
    /\ pc[p] = "tier"
    /\ \/ Continue(p, [pc |-> "eval",
                       req |-> [req[p] EXCEPT
                                  !.tier = get_user_tier(req[p].user[1]),
                                  !.now = clock]])
       \/ Continue(p, Raise(req[p], "tier"))
    /\ UNCHANGED <<clock, storeVars, seqVars, nReqs, client>>

\* check_rate_limit, lines 93-105: EVAL.  The store runs the script in one
\* piece and the reply arrives; or the call fails before the script ran;
\* or the script ran and the call timed out waiting for the reply.
Eval(p) ==
    LET r == req[p]
        b == bucket_key(r.key, r.window)
        out == lua_script(Stored(b), r.window,
                          max_requests_used(r.max_requests, r.tier),
                          r.cost, r.now)
    IN  /\ pc[p] = "eval"
        /\ \/ /\ StoreAfterEval(b, out, r.window)
              /\ Continue(p, [pc |-> "meta",
                              req |-> [r EXCEPT !.reply = out.reply,
                                                !.allowed = (out.reply[1] # 0),
                                                !.evals = @ + 1,
                                                !.executed = TRUE]])
           \/ /\ UNCHANGED <<zsets, ttl>>
              /\ Continue(p, Raise([r EXCEPT !.evals = @ + 1], "eval"))
           \/ /\ StoreAfterEval(b, out, r.window)
              /\ Continue(p, Raise([r EXCEPT !.evals = @ + 1,
                                              !.executed = TRUE], "eval"))
        /\ UNCHANGED <<clock, tierStore, seqVars, nReqs, client>>

\* The three quota headers the wrapper sets on its Response
QuotaHeaders(m) ==
    {<<"X-RateLimit-Limit", m.limit>>,
     <<"X-RateLimit-Remaining", m.remaining>>,
     <<"X-RateLimit-Reset", m.reset>>}

\* A variant of the wrapper's answer that runs the handler whatever the
\* decision:
wrapper_response_always_calls(r, m) ==
    IF ~r.allowed
    THEN [r EXCEPT !.meta = m, !.status = "429",
                   !.handler_called = TRUE,
                   !.handler_args = Some([user |-> r.user, addr |-> r.addr]),
                   !.headers = QuotaHeaders(m) \cup
                                 {<<"Retry-After", m.retry_after[1]>>}]
    ELSE [r EXCEPT !.meta = m, !.status = "handler",
                   !.handler_called = TRUE,
                   !.handler_args = Some([user |-> r.user, addr |-> r.addr])]

\* wrapper, lines 162-173: the quota headers are set on a new Response; a
\* rejected request is answered with that Response, status 429 and
\* Retry-After; for an admitted one func(request, *args, **kwargs) runs and
\* what it returns is the answer (the Response with the headers is dropped).
wrapper_response(r, m) ==
    IF ~r.allowed
    THEN [r EXCEPT !.meta = m, !.status = "429",
                   !.headers = QuotaHeaders(m) \cup
                                 {<<"Retry-After", m.retry_after[1]>>}]
    ELSE [r EXCEPT !.meta = m, !.status = "handler",
                   !.handler_called = TRUE,
                   !.handler_args = Some([user |-> r.user, addr |-> r.addr])]

\* check_rate_limit, lines 107-119, and wrapper, lines 162-173: the second
\* clock read, the metadata, and the answer
Respond(p) ==
    LET r == req[p]
        m == metadata(r.reply, r.window, r.tier, r.cost, clock)
    IN  /\ pc[p] = "meta"
        /\ Continue(p, [pc |-> "done", req |-> wrapper_response(r, m)])
        /\ UNCHANGED <<clock, storeVars, seqVars, nReqs, client>>

Next ==
    \/ \E p \in Procs :
          Receive(p) \/ GetUserTier(p) \/ Eval(p) \/ Respond(p)
    \/ TickTo(MaxClock)
    \/ StoreExpire

Spec == Init /\ [][Next]_vars

----------------------------------------------------------------------------
(* SpecFrame: one caller whose calls go to different keys and windows      *)

\* The (key, window) pairs called: one key with two windows, and a second
\* key
FrameBuckets ==
    {bk \in [key : Keys, window : Windows, tier : {"free"},
             requests : {default_max_requests}] :
        bk.key = get_rate_limit_key(None, "10.0.0.1") \/ bk.window = 2}

\* The default cost, and a cost that only an empty window admits
FrameCosts == {1, max_requests_of("free")}

InitFrame ==
    /\ InitStore
    /\ tierStore = [u \in Users |-> None]
    /\ client = [user |-> None, addr |-> "10.0.0.1"]
    /\ bucket = [key |-> get_rate_limit_key(None, "10.0.0.1"),
                 window |-> 2, tier |-> "free",
                 requests |-> default_max_requests]
    /\ last = NoCall
    /\ log = << >>
    /\ nCalls = 0
    /\ nAdmitted = 0
    /\ InitProcs

\* A call on any of the pairs; the clock stays within its second during
\* the call
FrameCall ==
    /\ nCalls < FrameCalls
    /\ \E bk \in FrameBuckets, cost \in FrameCosts :
          /\ bucket' = bk
          /\ check_rate_limit_on(bk, cost, clock)
          /\ log' = IF last'.allowed
                    THEN Append(log, [key |-> bk.key, window |-> bk.window,
                                      now |-> last'.now, cost |-> last'.cost])
                    ELSE log

NextFrame == FrameCall \/ Tick \/ StoreExpire

SpecFrame == InitFrame /\ [][NextFrame]_vars

----------------------------------------------------------------------------
(* SpecFill: a steady caller on a fresh key with the default window: one   *)
(* call or more of cost 1 in every second, for longer than a window        *)

InitFill ==
    /\ InitStore
    /\ tierStore = [u \in Users |-> None]
    /\ client = [user |-> None, addr |-> "10.0.0.1"]
    /\ bucket = [key |-> get_rate_limit_key(Some(42), "10.0.0.1"),
                 window |-> default_window, tier |-> "free",
                 requests |-> default_max_requests]
    /\ last = NoCall
    /\ log = << >>
    /\ nCalls = 0
    /\ nAdmitted = 0
    /\ InitProcs

\* A call within the current second
FillCall ==
    /\ nCalls < FillPerSecond * (clock + 1)
    /\ check_rate_limit(1, clock)
    /\ UNCHANGED log

\* The second passes once the caller has called in it
FillTick ==
    /\ last.called /\ last.now = clock
    /\ TickTo(FillTime)

\* The caller refreshes the TTL in every second, so the store's expiry is
\* no step here.
NextFill == FillCall \/ FillTick

SpecFill == InitFill /\ [][NextFill]_vars

----------------------------------------------------------------------------
(* SpecCost: one caller on one bucket, with the costs a caller can pass:   *)
(* check_rate_limit and the decorator take any int as cost and validate    *)
(* nothing.                                                                *)

\* The costs tried: a negative one, zero, the default, and the free limit
AnyCosts == {-1, 0, 1, max_requests_of("free")}

InitCost ==
    /\ InitStore
    /\ tierStore = [u \in Users |-> None]
    /\ client = [user |-> None, addr |-> "10.0.0.1"]
    /\ bucket \in [key : {get_rate_limit_key(None, "10.0.0.1")},
                   window : {2}, tier : {"free"},
                   requests : {default_max_requests}]
    /\ last = NoCall
    /\ log = << >>
    /\ nCalls = 0
    /\ nAdmitted = 0
    /\ InitProcs

CostCall ==
    /\ nCalls < MaxCalls
    /\ \E cost \in AnyCosts, now2 \in Later :
          /\ check_rate_limit(cost, now2)
          /\ UNCHANGED log

NextCost == CostCall \/ Tick \/ StoreExpire

SpecCost == InitCost /\ [][NextCost]_vars

----------------------------------------------------------------------------
(* SpecKey: get_rate_limit_key applied to two requests, each authenticated *)
(* or not, each from some address                                          *)

KeyUsers == {None, Some(7), Some(42)}

\* What get_remote_address gives: the peer's IP address as a string
KeyAddresses == {"10.0.0.1", "10.0.0.2", "127.0.0.1"}

InitKey ==
    /\ InitStore
    /\ tierStore = [u \in Users |-> None]
    /\ client = [user |-> None, addr |-> "10.0.0.1"]
    /\ bucket = [key |-> get_rate_limit_key(None, "10.0.0.1"),
                 window |-> default_window, tier |-> "free",
                 requests |-> default_max_requests]
    /\ last = NoCall
    /\ log = << >>
    /\ nCalls = 0
    /\ nAdmitted = 0
    /\ pc = [p \in Procs |-> "idle"]
    /\ req \in [Procs -> {[NoReq EXCEPT !.user = u, !.addr = a] :
                            u \in KeyUsers, a \in KeyAddresses}]
    /\ nReqs = 0
    /\ done = NoReq

\* wrapper, line 148: key = key_func(request) if key_func else
\* get_rate_limit_key(request)
ResolveKey(p) ==
    /\ pc[p] = "idle"
    /\ pc' = [pc EXCEPT ![p] = "keyed"]
    /\ req' = [req EXCEPT ![p].key = get_rate_limit_key(req[p].user,
                                                        req[p].addr)]
    /\ UNCHANGED <<clock, storeVars, seqVars, nReqs, done, client>>

NextKey == \E p \in Procs : ResolveKey(p)

SpecKey == InitKey /\ [][NextKey]_vars

----------------------------------------------------------------------------
(* Claims about check_rate_limit, one caller (SpecSeq, SpecBurst)          *)

RECURSIVE SumCost(_)
SumCost(s) == IF s = << >> THEN 0 ELSE Head(s).cost + SumCost(Tail(s))

\* The admitted calls whose timestamps lie in the window_seconds-long
\* interval that starts at t
AdmittedIn(t, window) ==
    SelectSeq(log, LAMBDA e : t <= e.now /\ e.now < t + window)

\* The entries of z that a check at time now with this window still counts
Unexpired(z, now, window) == {e \in z : e.score > now - window}

Limit == max_requests_of(bucket.tier)

\* C1: for every sequence of calls on a key (any costs >= 1, non-decreasing
\* timestamps), the costs of the admitted calls whose timestamps fall in
\* any rolling interval of window_seconds sum to at most the tier's limit.
C1_AdmittedCostWithinLimit ==
    \A t \in 0..MaxTime : SumCost(AdmittedIn(t, bucket.window)) <= Limit

\* C3: a rejected call records no event: the un-expired events of the key
\* are the same after it as before it, nothing was added, and any call that
\* follows it (same or later timestamp) gets the decision, the usage and the
\* resulting window it would have got had the rejected call never been made.
C3_RejectionRecordsNothing ==
    (last.called /\ ~last.allowed) =>
        /\ Unexpired(last.after, last.now, bucket.window)
             = Unexpired(last.before, last.now, bucket.window)
        /\ last.after \subseteq last.before
        /\ \A cost \in Costs(Limit), now \in last.now..MaxTime :
              lua_script(last.after, bucket.window, Limit, cost, now)
                = lua_script(last.before, bucket.window, Limit, cost, now)

\* A rejection on a window that holds both a stale and a live event
C3_Witness ==
    /\ last.called /\ ~last.allowed
    /\ Unexpired(last.before, last.now, bucket.window) # {}
    /\ last.after # last.before

\* C4: a request whose cost exceeds the limit is rejected whatever the
\* window holds, also when it holds nothing, and records nothing.
C4_OversizedCostRejected ==
    (last.called /\ last.cost > Limit) =>
        /\ ~last.allowed
        /\ last.meta.retry_after # None
        /\ last.after \subseteq last.before
        /\ Unexpired(last.after, last.now, bucket.window)
             = Unexpired(last.before, last.now, bucket.window)

\* An oversized request met an empty window
C4_Witness ==
    /\ last.called /\ last.cost > Limit
    /\ last.before = {}
    /\ ~last.allowed

\* C5: on a fresh key under tier free (limit N = 60), N requests of cost 1
\* with one and the same timestamp are all admitted and request N + 1 with
\* that timestamp is rejected with remaining = 0 and
\* retry_after = window_seconds.
C5_BurstOfOnes ==
    (last.called /\ last.cost = 1 /\ last.now = 0) =>
        /\ nCalls <= Limit => last.allowed
        /\ nCalls = Limit + 1 =>
              /\ ~last.allowed
              /\ last.meta.remaining = 0
              /\ last.meta.retry_after = Some(bucket.window)

\* C6: on a fresh key, requests of equal cost c within one window are
\* admitted exactly floor(limit / c) times and the next one is rejected
\* (limit 60, c = 10: six admitted, the seventh rejected).
C6_EqualCostAdmissions ==
    (last.called /\ last.now < bucket.window) =>
        /\ nCalls <= Limit \div last.cost => (last.allowed /\ nAdmitted = nCalls)
        /\ nCalls = (Limit \div last.cost) + 1 => ~last.allowed

\* The last call came window_seconds or more after the call before it
WindowElapsed ==
    /\ last.called
    /\ last.prev_now # None
    /\ last.now >= last.prev_now[1] + bucket.window

\* C7 as stated: when window_seconds have passed since the last request on
\* a key, the decision for the next request reports remaining = limit.
C7_RemainingIsLimit ==
    WindowElapsed => last.meta.remaining = Limit

\* C7 amended: the key's events have all expired, the request is counted
\* against an empty window, and its decision reports
\* remaining = limit - cost when it is admitted (cost <= limit) and
\* remaining = limit when it is rejected (cost > limit).
C7_RemainingAfterIdleWindow ==
    WindowElapsed =>
        /\ Unexpired(last.before, last.now, bucket.window) = {}
        /\ last.allowed = (last.cost <= Limit)
        /\ last.reply[2] = (IF last.allowed THEN last.cost ELSE 0)
        /\ last.meta.remaining
             = (IF last.cost <= Limit THEN Limit - last.cost ELSE Limit)
        /\ last.after \subseteq {[score |-> last.now,
                                  member |-> Member(last.now, last.cost)]}

\* An admitted request that followed an admitted one a full window later,
\* with the earlier event still stored when it arrived
C7_Witness ==
    /\ WindowElapsed
    /\ last.allowed
    /\ last.before # {}

----------------------------------------------------------------------------
(* Claims about the wrapper and concurrent handlers (Spec)                 *)

Abs(n) == IF n < 0 THEN 0 - n ELSE n

\* Handlers p and q both hold an admission of the same bucket, not yet
\* answered, with timestamps less than a window apart
JointlyAdmitted(p, q) ==
    /\ p # q
    /\ pc[p] = "meta" /\ pc[q] = "meta"
    /\ req[p].allowed /\ req[q].allowed
    /\ bucket_key(req[p].key, req[p].window)
         = bucket_key(req[q].key, req[q].window)
    /\ Abs(req[p].now - req[q].now) < req[p].window

\* C2: handlers that run check_rate_limit concurrently on one key, in any
\* interleaving of their steps, never jointly admit more than the limit
\* within the window.
C2_ConcurrentAdmissionsWithinLimit ==
    \A p, q \in Procs :
        JointlyAdmitted(p, q) => req[p].cost + req[q].cost <= req[p].reply[3]

\* C8: when the EVAL of a request fails or times out, the wrapped handler
\* is never invoked for that request, whatever the window holds.
C8_StoreFailureNeverReachesHandler ==
    /\ done.failed = "eval" =>
          (~done.handler_called /\ done.status # "handler")
    /\ \A p \in Procs : req[p].failed = "eval" => ~req[p].handler_called

\* A request whose EVAL failed before the script ran, on a window that
\* holds an event and has room for the request
C8_Witness ==
    /\ done.failed = "eval"
    /\ ~done.executed
    /\ LET z == Stored(bucket_key(done.key, done.window))
       IN  z # {} /\ ZCARD(z) + done.cost <= max_requests_of(done.tier)

\* C9: when the EVAL of a request fails or times out, the request is
\* answered like a quota-exceeded one: not allowed, status 429, and not
\* with an unhandled error.
C9_StoreFailureAnsweredAs429 ==
    done.failed = "eval" =>
        /\ done.status = "429"
        /\ ~done.allowed
        /\ done.status # "unhandled_error"

\* C10: when the tier lookup of an authenticated request fails, the tier
\* is free, the counter still evaluates the request with the free quota,
\* and the request does not fail because of the lookup.
C10_TierFailureFallsBackToFree ==
    done.failed = "tier" =>
        /\ done.tier = "free"
        /\ done.executed
        /\ done.reply[3] = max_requests_of("free")
        /\ done.status \in {"429", "handler"}

----------------------------------------------------------------------------
(* Claims about invalid costs (SpecCost)                                   *)

\* C11: a call with cost 0 or a negative cost is a configuration error: it
\* is not admitted, it is not reported as a rate-limit rejection (no
\* retry_after), and it leaves the sorted set of its bucket as it was.
C11_InvalidCostIsConfigurationError ==
    (last.called /\ last.cost <= 0) =>
        /\ ~last.allowed
        /\ last.meta.retry_after = None
        /\ last.after = last.before

\* C19: in every decision remaining = max(0, limit - used_after), and so
\* 0 <= remaining <= limit, whatever the window holds and whatever the cost.
C19_RemainingWithinBounds ==
    last.called =>
        /\ last.meta.remaining = Max(0, last.meta.limit - last.reply[2])
        /\ 0 <= last.meta.remaining
        /\ last.meta.remaining <= last.meta.limit

----------------------------------------------------------------------------
(* Claims about get_rate_limit_key (SpecKey)                               *)

Keyed == {p \in Procs : pc[p] = "keyed"}

----------------------------------------------------------------------------
(* Claims about the tier, the limit and the answer of the wrapper (Spec)   *)

\* The requests that hold the counter's decision: answered, or waiting for
\* their answer
Answered == done.status \in {"429", "handler"}
Decided ==
    {req[p] : p \in {q \in Procs : pc[q] = "meta"}}
      \cup (IF Answered THEN {done} ELSE {})

\* The quota table as the documentation gives it
TableLimit(tier) ==
    CASE tier = "free" -> 60
      [] tier = "pro" -> 600
      [] tier = "enterprise" -> 6000
      [] OTHER -> 60

\* C12: a principal with no tier stored is evaluated as tier free, and a
\* request whose tier label is none of free, pro, enterprise is evaluated
\* with the limit of free.
C12_UnknownTierGetsFreeQuota ==
    \A r \in Decided :
        /\ (r.user # None /\ tierStore[r.user[1]] = None)
              => (r.tier = "free" /\ r.reply[3] = 60)
        /\ r.tier \notin {"free", "pro", "enterprise"} => r.reply[3] = 60

\* An answered request of a user whose stored tier is unknown to the table,
\* and one in flight
C12_Witness ==
    /\ Answered
    /\ done.tier = "gold"
    /\ \E p \in Procs : pc[p] = "meta" /\ req[p].tier = "gold"

\* C15: every answer of a rate-limited endpoint, rejected or admitted,
\* carries the three quota headers of its request.
C15_EveryResponseCarriesQuotaHeaders ==
    Answered => QuotaHeaders(done.meta) \subseteq done.headers

\* C16: the handler runs if and only if the counter's decision admitted the
\* request, and only once the decision is there; a rejected request is
\* answered 429 with Retry-After = window_seconds and its handler never
\* runs; an admitted one reaches the handler with its own arguments.
C16_HandlerRunsIffAdmitted ==
    /\ done.handler_called <=> (Answered /\ done.allowed)
    /\ done.handler_called =>
          /\ done.executed /\ done.reply[1] = 1
          /\ done.status = "handler"
          /\ done.handler_args = Some([user |-> done.user, addr |-> done.addr])
    /\ (Answered /\ ~done.allowed) =>
          /\ done.status = "429"
          /\ <<"Retry-After", done.window>> \in done.headers
          /\ done.handler_args = None
    /\ \A p \in Procs : ~req[p].handler_called

\* A rejected request, answered
C16_Witness ==
    Answered /\ ~done.allowed /\ done.executed

----------------------------------------------------------------------------
(* Claims about the decorator's limit and the reset time (SpecBurst,       *)
(* SpecSeq)                                                                *)

\* C17: an endpoint decorated @rate_limit(requests=R, window=W, cost=C) is
\* limited to R units per W seconds per key: the limit applied is R, and
\* with cost 1 the call after the R-th within the window is rejected.
C17_DecoratorRequestsIsTheLimit ==
    (last.called /\ last.cost = 1) =>
        /\ last.meta.limit = bucket.requests
        /\ nCalls > bucket.requests => ~last.allowed

\* C20: reset is now + window_seconds, now being the timestamp the counter
\* operation of that request was given.
C20_ResetIsNowPlusWindow ==
    last.called => last.meta.reset = last.now + bucket.window

----------------------------------------------------------------------------
(* Claims about the script: usage, events, pruning, TTL (SpecSeq)          *)

\* The sorted-set entry the admitted call e of the log left
EntryOf(e) == [score |-> e.now, member |-> Member(e.now, e.cost)]

\* The admitted calls a check at the time of the last call still counts
UnexpiredLog ==
    SelectSeq(log, LAMBDA e : e.now > last.now - bucket.window)

\* The bucket the caller uses
TheBucket == bucket_key(bucket.key, bucket.window)

\* C21: the counter operation answers (false, current, limit) when
\* current + cost > limit and (true, current + cost, limit) otherwise,
\* current being the sum of the costs of the events left after pruning; so
\* the usage it reports is the total cost of the un-expired admitted calls.
C21_UsageIsSumOfCosts ==
    last.called =>
        /\ last.reply[3] = Limit
        /\ last.reply[2] = SumCost(UnexpiredLog)
        /\ last.allowed <=> last.reply[1] = 1

\* C22: two admitted calls with the same timestamp, also with the same
\* cost, are recorded as two events: every admission adds one entry to the
\* entries left after pruning.
C22_EveryAdmissionAddsAnEntry ==
    (last.called /\ last.allowed) =>
        ZCARD(last.after)
          = ZCARD(Unexpired(last.before, last.now, bucket.window)) + 1

\* C23: a check removes exactly the events with timestamp <= now - window
\* before it counts: the event of an admitted call at time t is counted by
\* every check at a time < t + window and by no check from t + window on.
C23_PrunesExactlyTheExpired ==
    last.called =>
        /\ \A i \in 1..Len(log) :
              EntryOf(log[i]) \in last.after
                <=> log[i].now + bucket.window > last.now
        /\ last.reply[2] - (IF last.allowed THEN last.cost ELSE 0)
             = Cardinality({e \in last.before :
                              e.score + bucket.window > last.now})

\* A check that found an event exactly one window old and a younger one
C23_Witness ==
    /\ last.called
    /\ \E e \in last.before : e.score + bucket.window = last.now
    /\ \E e \in last.before : e.score + bucket.window > last.now
                                /\ e.score < last.now

\* C24: the window a check at time now counts is the closed interval
\* [now - window, now]: an event whose timestamp is exactly now - window is
\* still counted.
C24_BoundaryEventCounted ==
    last.called =>
        \A e \in last.before :
            (last.now - bucket.window <= e.score /\ e.score <= last.now)
              => e \in last.after

\* C24, amended: the window a check at time now counts is the half-open
\* interval (now - window, now]: events with timestamp <= now - window are
\* expired, so an event whose timestamp is exactly now - window is not
\* counted any more, and one a second younger is.
C24_WindowIsHalfOpen ==
    last.called =>
        \A e \in last.before :
            /\ (last.now - bucket.window < e.score /\ e.score <= last.now)
                  => e \in last.after
            /\ e.score <= last.now - bucket.window
                  => (e \notin last.after
                        /\ last.reply[2] <= ZCARD(last.before) - 1
                                              + (IF last.allowed
                                                 THEN last.cost ELSE 0))

\* A check that found an event exactly one window old
C24_Witness ==
    /\ last.called
    /\ \E e \in last.before : e.score = last.now - bucket.window

\* C25: every admission sets the key's TTL to window_seconds and a
\* rejection leaves it as it is, so the TTL of a key that holds events runs
\* out window_seconds after the last admission; when it has run out, and
\* the store may drop the key, every event of the key is expired.
C25_TtlOutlivesEveryEvent ==
    /\ zsets[TheBucket] # {} =>
          /\ log # << >>
          /\ ttl[TheBucket] = Some(log[Len(log)].now + bucket.window)
    /\ ExpiryDue(TheBucket) =>
          \A e \in zsets[TheBucket] : e.score + bucket.window <= clock
    /\ (last.called /\ last.allowed) =>
          \/ ttl[TheBucket] = Some(last.now + bucket.window)
          \/ ttl[TheBucket] = None /\ clock >= last.now + bucket.window

\* A key whose TTL has run out, still stored, after a rejection that left
\* the TTL of an earlier admission in place
C25_Witness ==
    /\ ExpiryDue(TheBucket)
    /\ zsets[TheBucket] # {}
    /\ last.called /\ ~last.allowed
    /\ last.now < clock

----------------------------------------------------------------------------
(* Claims about a key without events (SpecCost)                            *)

\* C26: a call on a key that has no un-expired events is admitted whenever
\* 1 <= cost <= limit, and the usage it reports is its cost.
C26_EmptyWindowAdmits ==
    (/\ last.called
     /\ Unexpired(last.before, last.now, bucket.window) = {}
     /\ 1 <= last.cost /\ last.cost <= Limit) =>
        /\ last.allowed
        /\ last.reply[2] = last.cost
        /\ last.meta.remaining = Limit - last.cost

\* A call whose cost is the whole limit, on a key that holds expired
\* events only
C26_Witness ==
    /\ last.called
    /\ last.cost = Limit
    /\ last.before # {}
    /\ Unexpired(last.before, last.now, bucket.window) = {}
    /\ last.allowed

----------------------------------------------------------------------------
(* Claims about the order and the number of counter operations (Spec)      *)

\* C27: for one key the store applies the counter operations with
\* non-decreasing now, also when handlers read their clock and call the
\* store concurrently: no operation is applied with a timestamp lower than
\* that of an event the key already holds.
C27_AppliedInTimestampOrder ==
    [][\A p \in Procs :
          (pc[p] = "eval" /\ pc'[p] = "meta") =>
              \A e \in Stored(bucket_key(req[p].key, req[p].window)) :
                  e.score <= req[p].now]_vars

\* C28: every rate-limited request causes exactly one invocation of the
\* counter operation, never a second one.
C28_ExactlyOneCounterOperation ==
    /\ done.status # "" => done.evals = 1
    /\ \A p \in Procs :
          /\ req[p].evals <= 1
          /\ pc[p] = "meta" => req[p].evals = 1

----------------------------------------------------------------------------
(* Claims about the separation of buckets (SpecFrame)                      *)

\* The entries the first n admitted calls left on (key, window) that a
\* check at time now still counts
LiveOf(key, window, now, n) ==
    {EntryOf(log[i]) : i \in {j \in 1..n :
                                /\ log[j].key = key
                                /\ log[j].window = window
                                /\ log[j].now + window > now}}

\* C29: window state is kept per (key, window_seconds): what is stored for
\* a pair comes from the admissions on that pair alone, and the usage and
\* the decision of a call are those of the admissions on its own pair, so
\* that calls under another window or on another key never change them.
C29_BucketsAreSeparate ==
    /\ \A bk \in FrameBuckets :
          \A e \in zsets[bucket_key(bk.key, bk.window)] :
              \E i \in 1..Len(log) :
                  /\ log[i].key = bk.key /\ log[i].window = bk.window
                  /\ EntryOf(log[i]) = e
    /\ last.called =>
          LET own == LiveOf(bucket.key, bucket.window, last.now,
                            IF last.allowed THEN Len(log) - 1 ELSE Len(log))
          IN  /\ last.allowed <=> ZCARD(own) + last.cost <= Limit
              /\ last.reply[2]
                   = ZCARD(own) + (IF last.allowed THEN last.cost ELSE 0)
              /\ last.after
                   = LiveOf(bucket.key, bucket.window, last.now, Len(log))

\* A call that only an empty window admits, admitted on a pair without
\* live events of its own while the same key under the other window and
\* the other key both hold live events
C29_Witness ==
    /\ last.called
    /\ last.cost = Limit /\ last.allowed
    /\ \E b1, b2 \in FrameBuckets :
          /\ b1.key = bucket.key /\ b1.window # bucket.window
          /\ b2.key # bucket.key
          /\ Unexpired(Stored(bucket_key(b1.key, b1.window)), last.now,
                       b1.window) # {}
          /\ Unexpired(Stored(bucket_key(b2.key, b2.window)), last.now,
                       b2.window) # {}

----------------------------------------------------------------------------
(* Claims about the number of entries (SpecFill)                           *)

====
